---- MODULE Spec2Model ----
(***************************************************************************)
(* Unified search subsystem of ARQV30 (services/unified_search_manager.py  *)
(* and the reset_system route of routes/unified_analysis.py).              *)
(*                                                                         *)
(* Strings are sequences of tokens (a token is a run of characters that    *)
(* the code never cuts): "https://exame.com/a" is                          *)
(* <<"https:", "/", "/", "exame", ".", "com", "/", "a">> and "" is <<>>.   *)
(* Two strings are equal exactly when their token sequences are.           *)
(***************************************************************************)
EXTENDS Integers, Sequences, FiniteSets, TLC

\* ------------------------------------------------------------------ bounds
\* number of distinct non-empty URLs the search backends can serve
NumUrls == 2
\* longest list of items one backend serves for one query
MaxLen == 2
\* most items the backends serve together when the merging is run on its own
MaxTotal == 3
\* most parameters in the query string of a url given to the resolver
MaxParams == 2

\* ------------------------------------------------------- program constants
GoogleMaxErrors == 3
SerperMaxErrors == 3
BingMaxErrors == 5
DuckDuckGoMaxErrors == 5
\* an extractor's text is accepted when longer than this (stripped)
ExtractThreshold == 100
\* the text of the aggressive pass is accepted when longer than this
AggressiveThreshold == 50
\* _aggressive_extraction takes the text of a content container longer than this
ContainerThreshold == 100
\* range(3) of _download_html
DownloadAttempts == 3

Provider == {"google", "serper", "bing", "duckduckgo"}

\* order in which unified_search tests the providers and builds search_tasks
ProviderOrder == <<"google", "serper", "bing", "duckduckgo">>

preferred_domains ==
    << <<"g1", ".", "globo", ".", "com">>,
       <<"exame", ".", "com">>,
       <<"valor", ".", "globo", ".", "com">>,
       <<"estadao", ".", "com", ".", "br">>,
       <<"folha", ".", "uol", ".", "com", ".", "br">>,
       <<"canaltech", ".", "com", ".", "br">>,
       <<"tecmundo", ".", "com", ".", "br">>,
       <<"olhardigital", ".", "com", ".", "br">>,
       <<"infomoney", ".", "com", ".", "br">>,
       <<"startse", ".", "com">>,
       <<"revistapegn", ".", "globo", ".", "com">>,
       <<"epocanegocios", ".", "globo", ".", "com">>,
       <<"istoedinheiro", ".", "com", ".", "br">> >>

\* ------------------------------------------------------------ string tools
Range(s) == {s[i] : i \in 1..Len(s)}

\* s.endswith(suffix)
EndsWith(s, suffix) ==
    /\ Len(suffix) <= Len(s)
    /\ SubSeq(s, Len(s) - Len(suffix) + 1, Len(s)) = suffix

\* sub in s
Contains(s, sub) ==
    \E i \in 1..(Len(s) - Len(sub) + 1) : SubSeq(s, i, i + Len(sub) - 1) = sub

\* s.startswith('http'): the first token begins with the characters h,t,t,p
StartsWithHttp(s) == s # <<>> /\ s[1] \in {"http:", "https:", "http", "https"}

\* token.lower()
LowerToken(tok) ==
    CASE tok = "Brasil" -> "brasil"
      [] tok = "BR" -> "br"
      [] tok = "ID" -> "id"
      [] tok = "U" -> "u"
      [] tok = "PDF" -> "pdf"
      [] tok = "HTTPS:" -> "https:"
      [] OTHER -> tok

\* s.lower()
Lower(s) == [i \in 1..Len(s) |-> LowerToken(s[i])]

\* s.split('/'): the pieces between the "/" tokens
RECURSIVE SplitSlash(_)
SplitSlash(s) ==
    IF \A i \in 1..Len(s) : s[i] # "/"
    THEN <<s>>
    ELSE LET k == CHOOSE i \in 1..Len(s) :
                      s[i] = "/" /\ \A j \in 1..(i - 1) : s[j] # "/"
         IN <<SubSeq(s, 1, k - 1)>> \o SplitSlash(SubSeq(s, k + 1, Len(s)))

\* ------------------------------------------------------------ the backends
\* the non-empty URLs the backends can serve
UrlOf(i) ==
    CASE i = 1 -> <<"https:", "/", "/", "exame", ".", "com", "/", "a">>
      [] i = 2 -> <<"https:", "/", "/", "loja", ".", "com", ".", "br", "/", "p">>
      [] i = 3 -> <<"https:", "/", "/", "example", ".", "org", "/", "x">>
      [] i = 4 -> <<"https:", "/", "/", "brasil", "247", ".", "com", "/", "n">>
      [] i = 5 -> <<"https:", "/", "/", "sp", ".", "gov", ".", "br", ":", "8080", "/", "e">>
      [] OTHER -> <<"/", "l", "/", "r">>

EmptyUrl == <<>>

\* url values an item of a backend's answer can carry
ItemUrls(n) == {EmptyUrl} \cup {UrlOf(i) : i \in 1..n}

\* the answers (lists of item urls) a backend can serve
Bodies(n, len) == UNION {[1..k -> ItemUrls(n)] : k \in 0..len}

\* outcome of the one outbound request an adapter makes
HttpOutcomes == {"ok", "conn_error", "timeout", "non200", "unparsable"}

\* ---------------------------------------------------------- the adapters
\* an entry of a result list as the adapters build it
Entry(url, source) == [url |-> url, source |-> source]

\* s[:n]
Take(s, n) == SubSeq(s, 1, IF n < Len(s) THEN n ELSE Len(s))

\* body of the try block of a structured-API adapter: any failure of the
\* request, a status other than 200 or an unparsable body raises inside it
ApiTry(source, http, body) ==
    IF http = "ok"
    THEN [raised |-> FALSE, value |-> [i \in 1..Len(body) |-> Entry(body[i], source)]]
    ELSE [raised |-> TRUE, value |-> <<>>]

\* body of the try block of a scraping adapter: the first max_results blocks
\* are read and those with a url that starts with http are kept
ScrapeTry(source, http, body, max_results) ==
    IF http = "ok"
    THEN LET items == Take(body, max_results)
             Keep(u) == u # EmptyUrl /\ StartsWithHttp(u)
             urls == SelectSeq(items, Keep)
         IN [raised |-> FALSE, value |-> [i \in 1..Len(urls) |-> Entry(urls[i], source)]]
    ELSE [raised |-> TRUE, value |-> <<>>]

\* variant: the handler logs and re-raises
ExceptReraise(attempt) == attempt

\* except Exception: log and return []
ExceptReturnEmpty(attempt) ==
    IF attempt.raised THEN [raised |-> FALSE, value |-> <<>>] ELSE attempt

search_google(http, body, max_results) ==
    ExceptReturnEmpty(ApiTry("google_real", http, body))

search_serper(http, body, max_results) ==
    ExceptReturnEmpty(ApiTry("serper_real", http, body))

search_bing(http, body, max_results) ==
    ExceptReturnEmpty(ScrapeTry("bing_webscraping", http, body, max_results))

search_duckduckgo(http, body, max_results) ==
    ExceptReturnEmpty(ScrapeTry("duckduckgo_webscraping", http, body, max_results))

\* the callable and the share of max_results unified_search submits for p
SearchFunc(p, http, body, max_results) ==
    CASE p = "google" -> search_google(http, body, max_results \div 3)
      [] p = "serper" -> search_serper(http, body, max_results \div 3)
      [] p = "bing" -> search_bing(http, body, max_results \div 4)
      [] p = "duckduckgo" -> search_duckduckgo(http, body, max_results \div 4)

\* ------------------------------------------------- merging and ranking
\* variant: the test "if url and" is dropped, entries without url are kept
RECURSIVE RemoveDuplicatesKeepEmpty(_, _)
RemoveDuplicatesKeepEmpty(results, seen_urls) ==
    IF results = <<>> THEN <<>>
    ELSE LET url == Head(results).url
         IN IF url \notin seen_urls
            THEN <<Head(results)>>
                     \o RemoveDuplicatesKeepEmpty(Tail(results), seen_urls \cup {url})
            ELSE RemoveDuplicatesKeepEmpty(Tail(results), seen_urls)

\* variant: of the entries carrying a url, the last one is kept
RECURSIVE RemoveDuplicatesKeepLast(_, _)
RemoveDuplicatesKeepLast(results, seen_urls) ==
    IF results = <<>> THEN <<>>
    ELSE LET url == Head(results).url
             rest == Tail(results)
         IN IF /\ url # EmptyUrl
               /\ url \notin seen_urls
               /\ \A i \in 1..Len(rest) : rest[i].url # url
            THEN <<Head(results)>> \o RemoveDuplicatesKeepLast(rest, seen_urls)
            ELSE RemoveDuplicatesKeepLast(rest, seen_urls)

\* _remove_duplicates: the loop over results with its seen_urls set
RECURSIVE RemoveDuplicatesLoop(_, _)
RemoveDuplicatesLoop(results, seen_urls) ==
    IF results = <<>> THEN <<>>
    ELSE LET url == Head(results).url
         IN IF url # EmptyUrl /\ url \notin seen_urls
            THEN <<Head(results)>> \o RemoveDuplicatesLoop(Tail(results), seen_urls \cup {url})
            ELSE RemoveDuplicatesLoop(Tail(results), seen_urls)

\* variant: urls are never added to seen_urls
RemoveDuplicatesNoSeen(results) == SelectSeq(results, LAMBDA r : r.url # EmptyUrl)

remove_duplicates(results) == RemoveDuplicatesLoop(results, {})

\* url.split('/')[2] if len(url.split('/')) > 2 else ''
DomainOf(url) ==
    LET parts == SplitSlash(url) IN IF Len(parts) > 2 THEN parts[3] ELSE <<>>

\* any(pref in domain for pref in self.preferred_domains)
IsPreferred(domain) ==
    \E k \in 1..Len(preferred_domains) : Contains(domain, preferred_domains[k])

\* variant: is_brazilian without the test of the preferred domains
IsBrazilianByName(domain) ==
    \/ EndsWith(domain, <<".", "br">>)
    \/ Contains(Lower(domain), <<"brasil">>)

IsBrazilian(domain) ==
    \/ EndsWith(domain, <<".", "br">>)
    \/ Contains(Lower(domain), <<"brasil">>)
    \/ IsPreferred(domain)

\* priority_score, in units of 1.0
PriorityScore(is_preferred, is_brazilian) ==
    IF is_preferred THEN 4 ELSE IF is_brazilian THEN 3 ELSE 1

\* the three fields the loop of _prioritize_brazilian_sources sets on an entry
Annotate(e) ==
    LET domain == DomainOf(e.url)
    IN [url |-> e.url, source |-> e.source,
        is_brazilian |-> IsBrazilian(domain),
        is_preferred |-> IsPreferred(domain),
        priority_score |-> PriorityScore(IsPreferred(domain), IsBrazilian(domain))]

\* variant: a sort that puts larger scores first but is not stable (an entry
\* goes before the earlier entries of the same score)
RECURSIVE SortByScoreUnstable(_)
SortByScoreUnstable(s) ==
    IF s = <<>> THEN <<>>
    ELSE LET rest == SortByScoreUnstable(SubSeq(s, 1, Len(s) - 1))
             x == s[Len(s)]
             before == SelectSeq(rest, LAMBDA y : y.priority_score > x.priority_score)
             after == SelectSeq(rest, LAMBDA y : y.priority_score <= x.priority_score)
         IN before \o <<x>> \o after

\* list.sort(key=priority_score, reverse=True): stable, larger scores first
RECURSIVE SortByScore(_)
SortByScore(s) ==
    IF s = <<>> THEN <<>>
    ELSE LET rest == SortByScore(SubSeq(s, 1, Len(s) - 1))
             x == s[Len(s)]
             before == SelectSeq(rest, LAMBDA y : y.priority_score >= x.priority_score)
             after == SelectSeq(rest, LAMBDA y : y.priority_score < x.priority_score)
         IN before \o <<x>> \o after

prioritize_brazilian_sources(results) ==
    SortByScore([i \in 1..Len(results) |-> Annotate(results[i])])

\* ------------------------------------------------------------------ state
VARIABLES
    providers,         \* self.providers: enabled, error_count, max_errors, priority
    index,             \* the answers the search backends can serve (environment)
    pc,                \* per request thread: where it stands
    max_results,       \* argument of the running unified_search
    search_tasks,      \* its local list of providers to call
    chk,               \* how many of the four enabled tests it has made
    fut,               \* its futures: "none", "running", "done"
    outbound,          \* outbound requests its latest unified_search caused
    all_results,       \* its local all_results
    provider_results,  \* its local provider_results, a function on the keys set
    cur,               \* provider_name inside _record_provider_error
    tmp,               \* error_count as read by error_count += 1
    last,              \* how the future handled last came out, and the
                       \* error_count of its provider at that moment
    providers0,        \* self.providers as its latest unified_search found it
    result,            \* what the request it served last returned, if a search
    reply,             \* what the request it served last replied, if status or reset
    merge,             \* lines 126-160 of unified_search run on given task results
    resolver,          \* a call of URLResolver.resolve_url / clean_url
    extractor          \* a call of RobustContentExtractor.extract_content

searchVars == <<providers, index, pc, max_results, search_tasks, chk, fut, outbound,
                all_results, provider_results, cur, tmp, last, providers0, result, reply>>

vars == <<searchVars, merge, resolver, extractor>>

callLocals == <<max_results, search_tasks, chk, fut, outbound, all_results,
                provider_results, cur, tmp, last, providers0>>

MaxErrorsOf(p) ==
    CASE p = "google" -> GoogleMaxErrors
      [] p = "serper" -> SerperMaxErrors
      [] p = "bing" -> BingMaxErrors
      [] p = "duckduckgo" -> DuckDuckGoMaxErrors

PriorityOf(p) == CHOOSE k \in 1..4 : ProviderOrder[k] = p

SourceOf(p) ==
    CASE p = "google" -> "google_real"
      [] p = "serper" -> "serper_real"
      [] p = "bing" -> "bing_webscraping"
      [] p = "duckduckgo" -> "duckduckgo_webscraping"

\* values max_results takes at the call sites of unified_search
MaxResultsArgs == {10}

\* the installations explored: which API keys the environment holds, what
\* the backends can answer, and the request threads that are serving
Deployments ==
    { [google_key |-> TRUE, serper_key |-> FALSE,
       index |-> {<<>>, <<EmptyUrl>>, <<UrlOf(1)>>},
       threads |-> {"t1"}],
      [google_key |-> FALSE, serper_key |-> TRUE,
       index |-> {<<>>, <<EmptyUrl>>, <<UrlOf(1)>>},
       threads |-> {"t1"}],
      [google_key |-> FALSE, serper_key |-> FALSE,
       index |-> Bodies(NumUrls, MaxLen),
       threads |-> {"t1"}] }

\* UnifiedSearchManager.__init__
InitProviders(google_key, serper_key) ==
    [p \in Provider |->
        [enabled |-> CASE p = "google" -> google_key
                       [] p = "serper" -> serper_key
                       [] OTHER -> TRUE,
         priority |-> PriorityOf(p),
         error_count |-> 0,
         max_errors |-> MaxErrorsOf(p)]]

NoEvent == [provider |-> "none", http |-> "none", raised |-> FALSE, n |-> 0, count0 |-> 0]

\* a dict with no key, and d[k] = v
EmptyDict == [k \in {} |-> <<>>]
DictSet(d, k, v) == [x \in (DOMAIN d) \cup {k} |-> IF x = k THEN v ELSE d[x]]

\* the value of the snapshot of self.providers while no unified_search is observed
NoProviders ==
    [p \in Provider |-> [enabled |-> FALSE, priority |-> PriorityOf(p),
                         error_count |-> 0, max_errors |-> MaxErrorsOf(p)]]
NoResult == [kind |-> "none"]
NoReply == [op |-> "none"]

\* the backends and the request threads of deployment d, no call under way
InitLocals(d) ==
    /\ index = d.index
    /\ pc = [t \in d.threads |-> "idle"]
    /\ max_results = [t \in d.threads |-> 20]
    /\ search_tasks = [t \in d.threads |-> <<>>]
    /\ chk = [t \in d.threads |-> 0]
    /\ fut = [t \in d.threads |-> [p \in Provider |-> "none"]]
    /\ outbound = [t \in d.threads |-> [p \in Provider |-> 0]]
    /\ all_results = [t \in d.threads |-> <<>>]
    /\ provider_results = [t \in d.threads |-> EmptyDict]
    /\ cur = [t \in d.threads |-> "none"]
    /\ tmp = [t \in d.threads |-> 0]
    /\ last = [t \in d.threads |-> NoEvent]
    /\ providers0 = [t \in d.threads |-> NoProviders]
    /\ result = [t \in d.threads |-> NoResult]
    /\ reply = [t \in d.threads |-> NoReply]

InitWith(d) ==
    /\ providers = InitProviders(d.google_key, d.serper_key)
    /\ InitLocals(d)

\* no call of the component under way or observed
NoCall == [pc |-> "idle"]

Init ==
    /\ \E d \in Deployments : InitWith(d)
    /\ merge = NoCall
    /\ resolver = NoCall
    /\ extractor = NoCall

Threads == DOMAIN pc

\* ----------------------------------------------------------- unified_search
\* the locals of unified_search as they are before and after a call
ClearLocals(t) ==
    /\ search_tasks' = [search_tasks EXCEPT ![t] = <<>>]
    /\ chk' = [chk EXCEPT ![t] = 0]
    /\ fut' = [fut EXCEPT ![t] = [p \in Provider |-> "none"]]
    /\ all_results' = [all_results EXCEPT ![t] = <<>>]
    /\ provider_results' = [provider_results EXCEPT ![t] = EmptyDict]
    /\ cur' = [cur EXCEPT ![t] = "none"]
    /\ tmp' = [tmp EXCEPT ![t] = 0]
    /\ last' = [last EXCEPT ![t] = NoEvent]

\* entry of unified_search: fresh locals (lines 92-99)
Start(t) ==
    /\ pc[t] = "idle"
    /\ \E m \in MaxResultsArgs : max_results' = [max_results EXCEPT ![t] = m]
    /\ pc' = [pc EXCEPT ![t] = "build"]
    /\ ClearLocals(t)
    /\ outbound' = [outbound EXCEPT ![t] = [p \in Provider |-> 0]]
    /\ providers0' = [providers0 EXCEPT ![t] = providers]
    /\ result' = [result EXCEPT ![t] = NoResult]
    /\ reply' = [reply EXCEPT ![t] = NoReply]
    /\ UNCHANGED <<providers, index>>
    /\ UNCHANGED <<merge, resolver, extractor>>

\* variant: every provider is dispatched, whatever its enabled flag
DispatchAlways(p) == TRUE

\* whether unified_search appends provider p to search_tasks
ShouldDispatch(p) == providers[p].enabled

\* one of the four tests "if self.providers[p]['enabled']" (lines 101-115)
CheckProvider(t) ==
    /\ pc[t] = "build"
    /\ LET p == ProviderOrder[chk[t] + 1]
           tasks == IF ShouldDispatch(p) THEN Append(search_tasks[t], p)
                    ELSE search_tasks[t]
       IN /\ search_tasks' = [search_tasks EXCEPT ![t] = tasks]
          /\ chk' = [chk EXCEPT ![t] = chk[t] + 1]
          /\ pc' = [pc EXCEPT ![t] =
                      IF chk[t] + 1 < Len(ProviderOrder) THEN "build"
                      ELSE IF tasks # <<>> THEN "submit" ELSE "collect"]
    /\ UNCHANGED <<providers, index, max_results, fut, outbound, all_results,
                   provider_results, cur, tmp, last, providers0, result, reply>>
    /\ UNCHANGED <<merge, resolver, extractor>>

\* executor.submit for every task (lines 119-124); the pool has a worker
\* for each, so each task runs and makes its one outbound request
Submit(t) ==
    /\ pc[t] = "submit"
    /\ fut' = [fut EXCEPT ![t] =
                 [p \in Provider |-> IF p \in Range(search_tasks[t]) THEN "running"
                                     ELSE fut[t][p]]]
    /\ outbound' = [outbound EXCEPT ![t] =
                      [p \in Provider |-> IF p \in Range(search_tasks[t])
                                          THEN outbound[t][p] + 1
                                          ELSE outbound[t][p]]]
    /\ pc' = [pc EXCEPT ![t] = "collect"]
    /\ UNCHANGED <<providers, index, max_results, search_tasks, chk, all_results,
                   provider_results, cur, tmp, last, providers0, result, reply>>
    /\ UNCHANGED <<merge, resolver, extractor>>

\* variant: "if results is not None:"
NotNone(results) == TRUE

\* "if results:" (line 130)
Truthy(results) == results # <<>>

\* the loop body of "for future in as_completed(...)" for the future of p,
\* whose call came out as out (lines 127-138); on an exception it enters
\* _record_provider_error and reads error_count (lines 408-409)
HandleFuture(t, p, out, http) ==
    /\ fut' = [fut EXCEPT ![t][p] = "done"]
    /\ last' = [last EXCEPT ![t] = [provider |-> p, http |-> http,
                                    raised |-> out.raised, n |-> Len(out.value),
                                    count0 |-> providers[p].error_count]]
    /\ IF out.raised
       THEN /\ cur' = [cur EXCEPT ![t] = p]
            /\ tmp' = [tmp EXCEPT ![t] = providers[p].error_count]
            /\ pc' = [pc EXCEPT ![t] = "rec_store"]
            /\ UNCHANGED <<all_results, provider_results>>
       ELSE IF Truthy(out.value)
       THEN /\ all_results' = [all_results EXCEPT ![t] = all_results[t] \o out.value]
            /\ provider_results' = [provider_results EXCEPT
                                       ![t] = DictSet(provider_results[t], p, out.value)]
            /\ UNCHANGED <<cur, tmp, pc>>
       ELSE UNCHANGED <<all_results, provider_results, cur, tmp, pc>>
    /\ UNCHANGED <<providers, index, max_results, search_tasks, chk, outbound,
                   providers0, result, reply>>
    /\ UNCHANGED <<merge, resolver, extractor>>

\* the task of p completes: its adapter got http and body from the backend
TaskReturn(t, p) ==
    /\ pc[t] = "collect"
    /\ fut[t][p] = "running"
    /\ \E http \in HttpOutcomes, body \in index :
          HandleFuture(t, p, SearchFunc(p, http, body, max_results[t]), http)

\* the task of p ends with an exception that escaped the callable (one
\* raised outside the adapter's try body, e.g. while its handler logs)
TaskFault(t, p) ==
    /\ pc[t] = "collect"
    /\ fut[t][p] = "running"
    /\ HandleFuture(t, p, [raised |-> TRUE, value |-> <<>>], "fault")

\* variant: the statement of line 409 written with -= 1
Decremented(c) == c - 1

\* error_count += 1: what is stored for the value read (line 409)
Incremented(c) == c + 1

\* the store of error_count += 1 (line 409)
RecordStore(t) ==
    /\ pc[t] = "rec_store"
    /\ providers' = [providers EXCEPT ![cur[t]].error_count = Incremented(tmp[t])]
    /\ pc' = [pc EXCEPT ![t] = "rec_check"]
    /\ UNCHANGED <<index, callLocals, result, reply>>
    /\ UNCHANGED <<merge, resolver, extractor>>

\* variant: the threshold test written with > instead of >=
ExceededMaxErrors(p) == providers[p].error_count > providers[p].max_errors

\* the threshold test of _record_provider_error (line 411)
ReachedMaxErrors(p) == providers[p].error_count >= providers[p].max_errors

\* lines 411-413, then back to the as_completed loop
RecordCheck(t) ==
    /\ pc[t] = "rec_check"
    /\ providers' = IF ReachedMaxErrors(cur[t])
                    THEN [providers EXCEPT ![cur[t]].enabled = FALSE]
                    ELSE providers
    /\ pc' = [pc EXCEPT ![t] = "collect"]
    /\ UNCHANGED <<index, callLocals, result, reply>>
    /\ UNCHANGED <<merge, resolver, extractor>>

\* as_completed(timeout=45) raises TimeoutError while futures are unfinished
\* (line 126, outside the try): it leaves the with block, whose exit waits
\* for the workers, and unified_search raises
Timeout(t) ==
    /\ pc[t] = "collect"
    /\ \E p \in Provider : fut[t][p] = "running"
    /\ result' = [result EXCEPT ![t] = [kind |-> "raised", exc |-> "TimeoutError"]]
    /\ pc' = [pc EXCEPT ![t] = "idle"]
    /\ ClearLocals(t)
    /\ UNCHANGED <<providers, index, max_results, outbound, providers0, reply>>
    /\ UNCHANGED <<merge, resolver, extractor>>

\* position in merged of the first entry that came from provider p
FirstIdx(merged, p) ==
    CHOOSE i \in 1..Len(merged) :
        /\ merged[i].source = SourceOf(p)
        /\ \A j \in 1..(i - 1) : merged[j].source # SourceOf(p)

\* whether _remove_duplicates keeps the entry at position j of merged
Kept(merged, j) ==
    /\ merged[j].url # EmptyUrl
    /\ \A i \in 1..(j - 1) : merged[i].url # merged[j].url

\* provider_results as returned: its lists hold the very dicts of all_results,
\* so the entries _prioritize_brazilian_sources annotated show the new fields
AliasedProviderResults(merged, by_provider) ==
    [p \in DOMAIN by_provider |->
        [i \in 1..Len(by_provider[p]) |->
            IF Kept(merged, FirstIdx(merged, p) + i - 1)
            THEN Annotate(by_provider[p][i])
            ELSE by_provider[p][i]]]

\* variant: providers_used counts the configured providers, not the keys of
\* provider_results
BuildResponseAllProviders(merged, by_provider) ==
    LET unique_results == remove_duplicates(merged)
        prioritized_results == prioritize_brazilian_sources(unique_results)
    IN [results |-> prioritized_results,
        provider_results |-> AliasedProviderResults(merged, by_provider),
        statistics |->
            [total_results |-> Len(prioritized_results),
             providers_used |-> Cardinality(Provider),
             brazilian_sources |->
                 Len(SelectSeq(prioritized_results, LAMBDA r : r.is_brazilian)),
             preferred_sources |->
                 Len(SelectSeq(prioritized_results, LAMBDA r : r.is_preferred))]]

\* lines 140-166: the response built from all_results and provider_results
BuildResponse(merged, by_provider) ==
    LET unique_results == remove_duplicates(merged)
        prioritized_results == prioritize_brazilian_sources(unique_results)
    IN [results |-> prioritized_results,
        provider_results |-> AliasedProviderResults(merged, by_provider),
        statistics |->
            [total_results |-> Len(prioritized_results),
             providers_used |-> Cardinality(DOMAIN by_provider),
             brazilian_sources |->
                 Len(SelectSeq(prioritized_results, LAMBDA r : r.is_brazilian)),
             preferred_sources |->
                 Len(SelectSeq(prioritized_results, LAMBDA r : r.is_preferred))]]

\* every future has been handled (or there was none): lines 140-170
Finish(t) ==
    /\ pc[t] = "collect"
    /\ \A p \in Provider : fut[t][p] # "running"
    /\ result' = [result EXCEPT ![t] =
                    [kind |-> "returned",
                     response |-> BuildResponse(all_results[t], provider_results[t])]]
    /\ pc' = [pc EXCEPT ![t] = "idle"]
    /\ ClearLocals(t)
    /\ UNCHANGED <<providers, index, max_results, outbound, providers0, reply>>
    /\ UNCHANGED <<merge, resolver, extractor>>

\* ------------------------------------------------------- status and reset
\* variant: available is the test of the count alone
get_provider_status_count_only ==
    [p \in Provider |->
        [enabled |-> providers[p].enabled,
         priority |-> providers[p].priority,
         error_count |-> providers[p].error_count,
         max_errors |-> providers[p].max_errors,
         available |-> providers[p].error_count < providers[p].max_errors]]

get_provider_status ==
    [p \in Provider |->
        [enabled |-> providers[p].enabled,
         priority |-> providers[p].priority,
         error_count |-> providers[p].error_count,
         max_errors |-> providers[p].max_errors,
         available |-> providers[p].enabled
                       /\ providers[p].error_count < providers[p].max_errors]]

GetProviderStatus(t) ==
    /\ pc[t] = "idle"
    /\ reply' = [reply EXCEPT ![t] = [op |-> "status", status |-> get_provider_status]]
    /\ result' = [result EXCEPT ![t] = NoResult]
    /\ outbound' = [outbound EXCEPT ![t] = [p \in Provider |-> 0]]
    /\ providers0' = [providers0 EXCEPT ![t] = NoProviders]
    /\ UNCHANGED <<providers, index, pc, max_results, search_tasks, chk, fut,
                   all_results, provider_results, cur, tmp, last>>
    /\ UNCHANGED <<merge, resolver, extractor>>

ResetTypes == {"all", "search", "extractors"}

\* reset_system for the request types that reach the search manager or the
\* extractor: the method it calls first is not defined by its target
\* (UnifiedSearchManager has no reset_provider_errors, RobustContentExtractor
\* no reset_extractor_stats), the AttributeError is caught by the route's
\* except and the answer is a 500; self.providers is not touched
ResetOutcome(type) == [code |-> 500, providers |-> providers]

ResetSystem(t) ==
    /\ pc[t] = "idle"
    /\ \E type \in ResetTypes :
          /\ providers' = ResetOutcome(type).providers
          /\ reply' = [reply EXCEPT ![t] =
                         [op |-> "reset", type |-> type, code |-> ResetOutcome(type).code]]
    /\ result' = [result EXCEPT ![t] = NoResult]
    /\ outbound' = [outbound EXCEPT ![t] = [p \in Provider |-> 0]]
    /\ providers0' = [providers0 EXCEPT ![t] = NoProviders]
    /\ UNCHANGED <<index, pc, max_results, search_tasks, chk, fut,
                   all_results, provider_results, cur, tmp, last>>
    /\ UNCHANGED <<merge, resolver, extractor>>

\* ---------------------------------------------------------- specification
Next ==
    \/ \E t \in Threads : Start(t)
    \/ \E t \in Threads : CheckProvider(t)
    \/ \E t \in Threads : Submit(t)
    \/ \E t \in Threads, p \in Provider : TaskReturn(t, p)
    \/ \E t \in Threads, p \in Provider : TaskFault(t, p)
    \/ \E t \in Threads : RecordStore(t)
    \/ \E t \in Threads : RecordCheck(t)
    \/ \E t \in Threads : Timeout(t)
    \/ \E t \in Threads : Finish(t)
    \/ \E t \in Threads : GetProviderStatus(t)
    \/ \E t \in Threads : ResetSystem(t)

Spec == Init /\ [][Next]_vars

\* ------------------------------ several requests served at the same time
\* the application serves its requests on threads that share the one
\* UnifiedSearchManager of the module (line 431); no API key is configured
\* and the backends find nothing
ConcurrentDeployment ==
    [google_key |-> FALSE, serper_key |-> FALSE,
     index |-> {<<>>},
     threads |-> {"t1", "t2"}]

\* how many times the bing future has raised in the requests served before
EarlierBingErrors == {0, BingMaxErrors - 1}

\* the table as those requests left it: each added one to bing's count
\* (line 409), none reached the threshold of line 411
ProvidersAfter(n) ==
    [InitProviders(ConcurrentDeployment.google_key, ConcurrentDeployment.serper_key)
        EXCEPT !["bing"].error_count = n]

InitConcurrent ==
    /\ \E n \in EarlierBingErrors : providers = ProvidersAfter(n)
    /\ InitLocals(ConcurrentDeployment)
    /\ merge = NoCall
    /\ resolver = NoCall
    /\ extractor = NoCall

\* thread t has not served a request yet
Unserved(t) == result[t] = NoResult /\ reply[t] = NoReply /\ providers0[t] = NoProviders

\* each thread serves one request, of any kind, and the requests overlap
\* in every way their steps allow
NextConcurrent ==
    \/ \E t \in Threads : Unserved(t) /\ Start(t)
    \/ \E t \in Threads : CheckProvider(t)
    \/ \E t \in Threads : Submit(t)
    \/ \E t \in Threads, p \in Provider : TaskReturn(t, p)
    \/ \E t \in Threads, p \in Provider : TaskFault(t, p)
    \/ \E t \in Threads : RecordStore(t)
    \/ \E t \in Threads : RecordCheck(t)
    \/ \E t \in Threads : Timeout(t)
    \/ \E t \in Threads : Finish(t)
    \/ \E t \in Threads : Unserved(t) /\ GetProviderStatus(t)
    \/ \E t \in Threads : Unserved(t) /\ ResetSystem(t)

SpecConcurrent == InitConcurrent /\ [][NextConcurrent]_vars

\* ------------------------- lines 126-160 run on given answers of the tasks
\* the tasks of the call: google has its key, duckduckgo has been disabled
MergeTasks == <<"google", "bing">>

\* the urls the items served here can carry
MergeUrls == {EmptyUrl, UrlOf(1), UrlOf(2), UrlOf(3), UrlOf(4), UrlOf(5)}

\* the ways the backends of the two tasks can answer with at most n items
MergeBodies(n) ==
    UNION {{[p \in Range(MergeTasks) |->
                IF p = MergeTasks[1] THEN SubSeq(flat, 1, k)
                ELSE SubSeq(flat, k + 1, Len(flat))] : k \in 0..Len(flat)} :
           flat \in UNION {[1..m -> MergeUrls] : m \in 0..n}}

InitMerge ==
    /\ \E d \in Deployments : d.google_key /\ InitWith(d)
    /\ \E b \in MergeBodies(MaxTotal), m \in MaxResultsArgs :
          merge = [pc |-> "collect", bodies |-> b, max_results |-> m,
                   handled |-> <<>>, all_results |-> <<>>,
                   provider_results |-> EmptyDict]
    /\ resolver = NoCall
    /\ extractor = NoCall

\* the body of the as_completed loop for the future of p (lines 127-135),
\* whose adapter got a parsable 200 with the items of bodies[p]
MergeComplete(p) ==
    /\ merge.pc = "collect"
    /\ p \notin Range(merge.handled)
    /\ LET out == SearchFunc(p, "ok", merge.bodies[p], merge.max_results)
       IN merge' = IF Truthy(out.value)
                   THEN [merge EXCEPT !.handled = Append(@, p),
                                      !.all_results = @ \o out.value,
                                      !.provider_results = DictSet(@, p, out.value)]
                   ELSE [merge EXCEPT !.handled = Append(@, p)]
    /\ UNCHANGED <<searchVars, resolver, extractor>>

\* line 141
MergeDedup ==
    /\ merge.pc = "collect"
    /\ Range(merge.handled) = Range(MergeTasks)
    /\ merge' = [pc |-> "prioritize", bodies |-> merge.bodies,
                 max_results |-> merge.max_results, handled |-> merge.handled,
                 all_results |-> merge.all_results,
                 provider_results |-> merge.provider_results,
                 unique_results |-> remove_duplicates(merge.all_results)]
    /\ UNCHANGED <<searchVars, resolver, extractor>>

\* lines 144-170
MergeRespond ==
    /\ merge.pc = "prioritize"
    /\ merge' = [pc |-> "done", bodies |-> merge.bodies,
                 max_results |-> merge.max_results, handled |-> merge.handled,
                 all_results |-> merge.all_results,
                 provider_results |-> merge.provider_results,
                 unique_results |-> merge.unique_results,
                 response |-> BuildResponse(merge.all_results, merge.provider_results)]
    /\ UNCHANGED <<searchVars, resolver, extractor>>

NextMerge ==
    \/ \E p \in Range(MergeTasks) : MergeComplete(p)
    \/ MergeDedup
    \/ MergeRespond

SpecMerge == InitMerge /\ [][NextMerge]_vars

\* ------------------------------------------------------------ URLResolver
\* Optional[str]
None == [some |-> FALSE, value |-> <<>>]
Some(s) == [some |-> TRUE, value |-> s]

\* s.startswith(prefix)
StartsWith(s, prefix) == Len(prefix) <= Len(s) /\ SubSeq(s, 1, Len(prefix)) = prefix

\* s.strip()
RECURSIVE Strip(_)
Strip(s) ==
    IF s # <<>> /\ s[1] = " " THEN Strip(Tail(s))
    ELSE IF s # <<>> /\ s[Len(s)] = " " THEN Strip(SubSeq(s, 1, Len(s) - 1))
    ELSE s

\* position of the first token of s, from position i on, that is in stops;
\* Len(s) + 1 if there is none
FirstOf(s, i, stops) ==
    IF \E k \in i..Len(s) : s[k] \in stops
    THEN CHOOSE k \in i..Len(s) : s[k] \in stops /\ \A j \in i..(k - 1) : s[j] \notin stops
    ELSE Len(s) + 1

\* s.split(sep)
RECURSIVE Split(_, _)
Split(s, sep) ==
    LET k == FirstOf(s, 1, {sep})
    IN IF k > Len(s) THEN <<s>>
       ELSE <<SubSeq(s, 1, k - 1)>> \o Split(SubSeq(s, k + 1, Len(s)), sep)

\* the pieces joined with sep between them
RECURSIVE Join(_, _)
Join(pieces, sep) ==
    IF pieces = <<>> THEN <<>>
    ELSE IF Len(pieces) = 1 THEN pieces[1]
    ELSE pieces[1] \o <<sep>> \o Join(Tail(pieces), sep)

\* urllib.parse.unquote of a token
UnquoteToken(tok) ==
    CASE tok = "https%3A" -> "https:"
      [] tok = "%3A" -> ":"
      [] tok = "%2F" -> "/"
      [] tok = "%3F" -> "?"
      [] tok = "%3D" -> "="
      [] tok = "%26" -> "&"
      [] tok = "%20" -> " "
      [] tok = "%2520" -> "%20"
      [] OTHER -> tok

Unquote(s) == [i \in 1..Len(s) |-> UnquoteToken(s[i])]

\* variant: parse_qs hands the values over as they stand in the query
KeepQuoted(tok) == tok

\* the unquoting parse_qs applies to names and values: "+" is a space
UnquotePlusToken(tok) == IF tok = "+" THEN " " ELSE UnquoteToken(tok)

\* urllib.parse.quote_plus of a token
QuotePlusToken(tok) ==
    CASE tok = " " -> "+"
      [] tok = "/" -> "%2F"
      [] tok = ":" -> "%3A"
      [] tok = "https:" -> "https%3A"
      [] tok = "?" -> "%3F"
      [] tok = "=" -> "%3D"
      [] tok = "&" -> "%26"
      [] tok = "%20" -> "%2520"
      [] tok = "%2520" -> "%252520"
      [] OTHER -> tok

QuotePlus(s) == [i \in 1..Len(s) |-> QuotePlusToken(s[i])]

\* the scheme urlparse finds in a first token, lower-cased, with its colon
SchemeOfToken(tok) ==
    CASE tok \in {"https:", "HTTPS:"} -> "https:"
      [] tok = "http:" -> "http:"
      [] tok = "mailto:" -> "mailto:"
      [] OTHER -> ""

\* urllib.parse.urlparse: scheme (with its colon, "" if none), netloc, path,
\* query and fragment
urlparse(url) ==
    LET scheme == IF url = <<>> THEN "" ELSE SchemeOfToken(url[1])
        rest1 == IF scheme = "" THEN url ELSE Tail(url)
        has_netloc == StartsWith(rest1, <<"/", "/">>)
        netloc_end == FirstOf(rest1, 3, {"/", "?", "#"})
        netloc == IF has_netloc THEN SubSeq(rest1, 3, netloc_end - 1) ELSE <<>>
        rest2 == IF has_netloc THEN SubSeq(rest1, netloc_end, Len(rest1)) ELSE rest1
        hash == FirstOf(rest2, 1, {"#"})
        fragment == SubSeq(rest2, hash + 1, Len(rest2))
        rest3 == SubSeq(rest2, 1, hash - 1)
        qmark == FirstOf(rest3, 1, {"?"})
    IN [scheme |-> scheme, netloc |-> netloc,
        path |-> SubSeq(rest3, 1, qmark - 1),
        query |-> SubSeq(rest3, qmark + 1, Len(rest3)),
        fragment |-> fragment]

\* 'bing.com/ck/a'
BingMarker == <<"bing", ".", "com", "/", "ck", "/", "a">>

\* bing_redirect_pattern.search(url), the pattern being
\* bing\.com/ck/a\?.*?&u=([^&]+): group(1) of the leftmost match
BingRedirectSearch(url) ==
    LET head == BingMarker \o <<"?">>
        hits == {k \in 1..Len(url) :
                   /\ k + 3 <= Len(url)
                   /\ url[k] = "&" /\ url[k + 1] = "u" /\ url[k + 2] = "="
                   /\ url[k + 3] # "&"
                   /\ \E i \in 1..k : /\ i + Len(head) - 1 < k
                                      /\ SubSeq(url, i, i + Len(head) - 1) = head}
    IN IF hits = {} THEN None
       ELSE LET k == CHOOSE h \in hits : \A g \in hits : h <= g
            IN Some(SubSeq(url, k + 3, FirstOf(url, k + 3, {"&"}) - 1))

\* base64.b64decode(s).decode('utf-8') for an s that starts with a1aHR0c:
\* the first bytes decoded are k, V, 0x87, which is not UTF-8 (or the padding
\* is wrong), so it raises
B64DecodeUtf8(s) == [raised |-> TRUE, value |-> <<>>]

\* s.startswith('a1aHR0c')
StartsWithA1(s) == s # <<>> /\ s[1] \in {"a1aHR0cHM6Ly9leGFtcGxlLmNvbS9wYWdl"}

\* lines 74-77: the result is made to start with a scheme
EnsureScheme(decoded_url) ==
    IF StartsWith(decoded_url, <<":", "/", "/">>)
    THEN <<"https:">> \o Tail(decoded_url)
    ELSE IF ~(\/ StartsWith(decoded_url, <<"http:", "/", "/">>)
              \/ StartsWith(decoded_url, <<"https:", "/", "/">>))
    THEN <<"https:", "/", "/">> \o decoded_url
    ELSE decoded_url

resolve_bing_redirect(bing_url) ==
    LET match == BingRedirectSearch(bing_url)
    IN IF ~match.some THEN None
       ELSE LET decoded_url == Unquote(match.value)
                attempt == B64DecodeUtf8(decoded_url)
                decoded2 == IF StartsWithA1(decoded_url) /\ ~attempt.raised
                            THEN attempt.value ELSE decoded_url
            IN Some(EnsureScheme(decoded2))

resolve_url(url) ==
    IF url = <<>> THEN None
    ELSE LET stripped == Strip(url)
         IN IF Contains(stripped, BingMarker)
            THEN LET resolved == resolve_bing_redirect(stripped)
                 IN IF resolved.some /\ resolved.value # <<>> THEN resolved ELSE None
            ELSE LET parsed == urlparse(stripped)
                 IN IF parsed.scheme = "" \/ parsed.netloc = <<>> THEN None
                    ELSE Some(stripped)

essential_params == {"id", "page", "article", "post", "slug"}

\* urllib.parse.parse_qsl: the name=value fields of a query whose value is
\* not blank, unquoted
ParseQsl(query) ==
    LET fields == Split(query, "&")
        HasValue(f) == FirstOf(f, 1, {"="}) < Len(f)
        good == SelectSeq(fields, HasValue)
    IN [i \in 1..Len(good) |->
          LET eq == FirstOf(good[i], 1, {"="})
              name == SubSeq(good[i], 1, eq - 1)
              value == SubSeq(good[i], eq + 1, Len(good[i]))
          IN [name |-> [k \in 1..Len(name) |-> UnquotePlusToken(name[k])],
              value |-> [k \in 1..Len(value) |-> UnquotePlusToken(value[k])]]]

\* the names of the pairs, each once, in the order they first come
RECURSIVE NamesInOrder(_, _)
NamesInOrder(pairs, seen) ==
    IF pairs = <<>> THEN <<>>
    ELSE IF Head(pairs).name \in seen THEN NamesInOrder(Tail(pairs), seen)
    ELSE <<Head(pairs).name>> \o NamesInOrder(Tail(pairs), seen \cup {Head(pairs).name})

\* param.lower() in essential_params
IsEssential(name) == Len(name) = 1 /\ LowerToken(name[1]) \in essential_params

\* parse_qs, the filter on the names and urlencode(doseq=True): the pairs
\* of the essential names, grouped by name, quoted and joined (lines 115-124)
FilteredQuery(query) ==
    LET pairs == ParseQsl(query)
        names == SelectSeq(NamesInOrder(pairs, {}), IsEssential)
        Of(name) == SelectSeq(pairs, LAMBDA pr : pr.name = name)
        RECURSIVE Fields(_)
        Fields(ns) ==
            IF ns = <<>> THEN <<>>
            ELSE [i \in 1..Len(Of(Head(ns))) |->
                     QuotePlus(Head(ns)) \o <<"=">> \o QuotePlus(Of(Head(ns))[i].value)]
                 \o Fields(Tail(ns))
    IN Join(Fields(names), "&")

clean_url(url) ==
    IF url = <<>> THEN url
    ELSE LET resolved == resolve_url(url)
         IN IF ~resolved.some THEN url
            ELSE LET parsed == urlparse(resolved.value)
                     new_query == FilteredQuery(parsed.query)
                 IN IF parsed.query # <<>>
                    THEN IF new_query # <<>>
                         THEN <<parsed.scheme, "/", "/">> \o parsed.netloc \o parsed.path
                                  \o <<"?">> \o new_query
                         ELSE <<parsed.scheme, "/", "/">> \o parsed.netloc \o parsed.path
                    ELSE resolved.value

\* --------------------------------------------- the urls given to the resolver
Target == <<"https:", "/", "/", "example", ".", "com", "/", "page">>

\* Target, URL-encoded
EncodedTarget == <<"https%3A", "%2F", "%2F", "example", ".", "com", "%2F", "page">>

\* a Bing click-tracking redirect up to its query string
BingClick == <<"https:", "/", "/", "www", ".", "bing", ".", "com", "/", "ck", "/", "a">>

\* parameters a Bing redirect can carry: tracking fields, and u with the
\* encoded target, with a target that lacks its scheme or its host, with
\* the a1 + base64 form Bing uses, or under the name U
BingParams ==
    { <<"p", "=", "1">>,
      <<"ntb", "=", "1">>,
      <<"u", "=">> \o EncodedTarget,
      <<"u", "=", "example", ".", "com", "%2F", "page">>,
      <<"u", "=", "%3A", "%2F", "%2F", "example", ".", "com", "%2F", "page">>,
      <<"u", "=", "%2F", "page">>,
      <<"u", "=", "a1aHR0cHM6Ly9leGFtcGxlLmNvbS9wYWdl">>,
      <<"U", "=">> \o EncodedTarget }

\* parameters of the other urls
PlainParams ==
    { <<"utm", "=", "1">>,
      <<"id", "=", "2">>,
      <<"ID", "=", "3">>,
      <<"id", "=">>,
      <<"slug", "=", "a", "%20", "b">> }

\* the query strings of at most n parameters taken from params
Queries(params, n) ==
    {Join(q, "&") : q \in UNION {[1..k -> params] : k \in 0..n}}

\* what comes before the query string in the other urls: a page, the same
\* with its scheme in capitals, without scheme, without host, and a PDF
PlainBases ==
    { Target,
      <<"HTTPS:", "/", "/", "example", ".", "com", "/", "page">>,
      <<"example", ".", "com", "/", "page">>,
      <<"https:", "/", "/", "/", "page">>,
      <<"https:", "/", "/", "example", ".", "com", "/", "doc", ".", "pdf">> }

WithQuery(base, query) == IF query = <<>> THEN base ELSE base \o <<"?">> \o query

\* the urls explored: the empty string, Bing redirects, and other urls with
\* or without a fragment and surrounding blanks
ResolverUrls(n) ==
    {<<>>}
    \cup {WithQuery(BingClick, q) : q \in Queries(BingParams, n)}
    \cup {pre \o WithQuery(b, q) \o frag \o pre :
            b \in PlainBases, q \in Queries(PlainParams, n),
            frag \in {<<>>, <<"#", "f">>}, pre \in {<<>>, <<" ">>}}

\* a call of each function of the resolver on a url, and the calls the
\* round trips make on its result
InitResolver ==
    /\ \E d \in Deployments : d.google_key /\ InitWith(d)
    /\ merge = NoCall
    /\ \E u \in ResolverUrls(MaxParams) : resolver = [pc |-> "call", url |-> u]
    /\ extractor = NoCall

ResolveUrl ==
    /\ resolver.pc = "call"
    /\ resolver' = [pc |-> "resolved", url |-> resolver.url,
                    resolved |-> resolve_url(resolver.url)]
    /\ UNCHANGED <<searchVars, merge, extractor>>

CleanResolved ==
    /\ resolver.pc = "resolved"
    /\ resolver.resolved.some
    /\ resolver' = [pc |-> "resolved_cleaned", url |-> resolver.url,
                    resolved |-> resolver.resolved,
                    cleaned |-> clean_url(resolver.resolved.value)]
    /\ UNCHANGED <<searchVars, merge, extractor>>

ResolveCleaned ==
    /\ resolver.pc = "resolved_cleaned"
    /\ resolver' = [pc |-> "round_trip", url |-> resolver.url,
                    resolved |-> resolver.resolved, cleaned |-> resolver.cleaned,
                    again |-> resolve_url(resolver.cleaned)]
    /\ UNCHANGED <<searchVars, merge, extractor>>

CleanUrl ==
    /\ resolver.pc = "call"
    /\ resolver' = [pc |-> "cleaned", url |-> resolver.url,
                    cleaned |-> clean_url(resolver.url)]
    /\ UNCHANGED <<searchVars, merge, extractor>>

CleanCleaned ==
    /\ resolver.pc = "cleaned"
    /\ resolver' = [pc |-> "cleaned_twice", url |-> resolver.url,
                    cleaned |-> resolver.cleaned,
                    again |-> clean_url(resolver.cleaned)]
    /\ UNCHANGED <<searchVars, merge, extractor>>

NextResolver ==
    \/ ResolveUrl
    \/ CleanResolved
    \/ ResolveCleaned
    \/ CleanUrl
    \/ CleanCleaned

SpecResolver == InitResolver /\ [][NextResolver]_vars

\* ------------------------------------------------ RobustContentExtractor
\* the order in which _initialize_extractors probes the libraries
ExtractorProbeOrder ==
    <<"trafilatura", "readability", "newspaper", "beautifulsoup",
      "pdf_pypdf2", "pdf_pdfplumber", "pdf_pymupdf">>

\* the order in which _extract_pdf_content tries the PDF libraries
PdfOrder == <<"pdf_pdfplumber", "pdf_pymupdf", "pdf_pypdf2">>

\* variant: the loop over the HTML methods skips nothing
SkipsNothing(e) == FALSE

IsPdfExtractor(e) == e \in Range(PdfOrder)

\* self.available_extractors when the libraries of installed can be imported
AvailableExtractors(installed) ==
    SelectSeq(ExtractorProbeOrder, LAMBDA e : e \in installed)

\* the sets of libraries explored; bs4 is always there (the search manager
\* imports it when loaded)
Installs ==
    { Range(ExtractorProbeOrder),
      {"beautifulsoup", "pdf_pypdf2"},
      {"beautifulsoup"} }

\* lengths of text that fall on each side of the two thresholds
TextSizes ==
    {0, AggressiveThreshold, AggressiveThreshold + 1, ExtractThreshold,
     ExtractThreshold + 1}

\* what a host serves with a 200.  An HTML page has main characters of body
\* text outside script, style, nav, header, footer and aside, of which
\* container stand inside an element the content selectors match, and
\* chrome characters inside nav, header, footer or aside; empty is a 200
\* with no body at all.  A PDF has main characters of text.
Documents ==
    UNION {{[kind |-> "html", empty |-> FALSE, main |-> m, chrome |-> c,
              container |-> k] : c \in {0, ExtractThreshold + 1}, k \in {0, m}} :
           m \in TextSizes}
    \cup {[kind |-> "html", empty |-> TRUE, main |-> 0, chrome |-> 0, container |-> 0]}
    \cup {[kind |-> "pdf", empty |-> FALSE, main |-> m, chrome |-> 0, container |-> 0] :
            m \in {0, ExtractThreshold, ExtractThreshold + 1}}

\* the urls extract_content is called with: none, one without scheme, a
\* page, a Bing redirect to it, a Bing redirect that names no target, a
\* file named .pdf and a page whose path has the letters pdf in it
ExtractorUrls ==
    { <<>>,
      <<"example", ".", "com", "/", "page">>,
      Target,
      WithQuery(BingClick, <<"p", "=", "1", "&", "u", "=">> \o EncodedTarget),
      WithQuery(BingClick, <<"p", "=", "1">>),
      <<"https:", "/", "/", "example", ".", "com", "/", "doc", ".", "pdf">>,
      <<"https:", "/", "/", "example", ".", "com", "/", "pdf", "-guide">> }

\* how one GET ends: a 200, a 500 (raise_for_status raises), no answer in time
GetOutcomes == {"ok", "http500", "timeout"}

\* _is_pdf_url
is_pdf_url(url) ==
    EndsWith(Lower(url), <<".", "pdf">>) \/ Contains(Lower(url), <<"pdf">>)

\* what an extraction library can do with a document: raise, or return a
\* text of some length
LibraryOutcomes ==
    {[raised |-> TRUE, n |-> 0]}
    \cup {[raised |-> FALSE, n |-> k] : k \in {0, ExtractThreshold, ExtractThreshold + 1}}

\* characters of text html.parser finds in the body of a response once
\* script and style are gone; the bytes of a PDF read as text are all text
MarkupText(doc) ==
    IF doc.kind = "pdf" THEN ExtractThreshold + 1 ELSE doc.main + doc.chrome

\* _extract_with_method(html_content, method, url): the ways it can end
ExtractWithMethod(method, doc) ==
    IF method = "beautifulsoup"
    THEN {[raised |-> FALSE, n |-> MarkupText(doc)]}
    ELSE LibraryOutcomes

\* _extract_pdf_with_method(pdf_content, method): the ways it can end; the
\* libraries raise on bytes that are no PDF
ExtractPdfWithMethod(method, doc) ==
    IF doc.kind = "pdf"
    THEN {[raised |-> TRUE, n |-> 0], [raised |-> FALSE, n |-> 0],
          [raised |-> FALSE, n |-> doc.main]}
    ELSE {[raised |-> TRUE, n |-> 0]}

\* _aggressive_extraction: length of the text it returns
aggressive_extraction(installed, doc) ==
    IF "beautifulsoup" \notin installed THEN 0
    ELSE IF doc.kind = "pdf" THEN ExtractThreshold + 1
    ELSE IF doc.container > ContainerThreshold THEN doc.container
    ELSE doc.main

\* variant: a text of exactly 100 characters passes
PassesThresholdInclusive(out) == ~out.raised /\ out.n >= ExtractThreshold

\* content and len(content.strip()) > 100
PassesThreshold(out) == ~out.raised /\ out.n > ExtractThreshold

\* variant: the aggressive text is returned whatever its length
PassesAggressiveAlways(n) == TRUE

\* variant: the aggressive text must pass the threshold of the extractors
PassesAggressiveAsExtractor(n) == n > ExtractThreshold

\* aggressive_content and len(aggressive_content.strip()) > 50
PassesAggressive(n) == n > AggressiveThreshold

NoOutcome == [kind |-> "none"]

\* variant: the metadata of a failure names no error
FailureUnnamed(message) ==
    [kind |-> "returned", content |-> 0, metadata |-> [extractor_used |-> "none"]]

\* return "", {"error": message}
Failure(message) ==
    [kind |-> "returned", content |-> 0, metadata |-> [error |-> message]]

\* variant: the download error is not caught
DownloadErrorRaised(message) == [kind |-> "raised"]

\* the except blocks around the downloads (lines 131-133 and 274-276)
DownloadErrorCaught(message) == Failure(message)

\* return content, metadata of an extractor that passed the threshold
Success(url, extractor_name, n, tried) ==
    [kind |-> "returned", content |-> n,
     metadata |-> [url |-> url, extractors_tried |-> tried,
                   extractor_used |-> extractor_name, content_length |-> n]]

\* return aggressive_content, metadata (no content_length is set)
AggressiveSuccess(url, n, tried) ==
    [kind |-> "returned", content |-> n,
     metadata |-> [url |-> url, extractors_tried |-> tried,
                   extractor_used |-> "aggressive"]]

\* a call extract_content(url) in a process with the given libraries, the
\* host answering a 200 with doc
InitExtractor ==
    /\ \E d \in Deployments : d.google_key /\ InitWith(d)
    /\ merge = NoCall
    /\ resolver = NoCall
    /\ \E u \in ExtractorUrls, inst \in Installs, doc \in Documents :
          extractor = [pc |-> "call", url |-> u, installed |-> inst, doc |-> doc,
                       resolved |-> None, gets |-> <<>>, slept |-> <<>>,
                       tried |-> <<>>, outs |-> <<>>, outcome |-> NoOutcome]

\* the extractors the loop of _extract_html_content does not skip
HtmlChain(installed) ==
    SelectSeq(AvailableExtractors(installed), LAMBDA e : ~IsPdfExtractor(e))

\* the extractors the loop of _extract_pdf_content does not skip
PdfChain(installed) == SelectSeq(PdfOrder, LAMBDA e : e \in installed)

Done(outcome) == [extractor EXCEPT !.pc = "done", !.outcome = outcome]

\* extract_content up to the branch on _is_pdf_url (lines 95-112)
ExtractResolve ==
    /\ extractor.pc = "call"
    /\ LET resolved_url == resolve_url(extractor.url)
       IN extractor' =
            IF extractor.url = <<>> THEN Done(Failure("URL vazia"))
            ELSE IF ~resolved_url.some THEN Done(Failure("URL nao resolvida"))
            ELSE [extractor EXCEPT
                    !.resolved = resolved_url,
                    !.pc = IF is_pdf_url(resolved_url.value) THEN "pdf_get"
                           ELSE "html_get"]
    /\ UNCHANGED <<searchVars, merge, resolver>>

\* variant: the same pause after every failed attempt
FixedDelay(attempt) == 1

\* time.sleep(2 ** attempt): seconds slept after failed attempt number attempt
Backoff(attempt) == 2 ^ attempt

\* one turn of the loop of _download_html, and what _extract_html_content
\* does when it returns or raises (lines 124-133, 175-186)
HtmlGet ==
    /\ extractor.pc = "html_get"
    /\ \E o \in GetOutcomes :
          LET attempt == Len(extractor.gets)
              got == [extractor EXCEPT !.gets = Append(@, o)]
          IN extractor' =
               IF o = "ok"
               THEN IF extractor.doc.empty
                    THEN [got EXCEPT !.pc = "done",
                                     !.outcome = Failure("Falha ao baixar HTML")]
                    ELSE [got EXCEPT !.pc = IF HtmlChain(extractor.installed) = <<>>
                                            THEN "aggressive" ELSE "extract"]
               ELSE IF attempt < DownloadAttempts - 1
               THEN [got EXCEPT !.slept = Append(@, Backoff(attempt))]
               ELSE [got EXCEPT !.pc = "done",
                                !.outcome = DownloadErrorCaught("Erro no download")]
    /\ UNCHANGED <<searchVars, merge, resolver>>

\* one turn of the loop over the extractors (lines 136-157)
TryExtractor ==
    /\ extractor.pc = "extract"
    /\ LET chain == HtmlChain(extractor.installed)
           extractor_name == chain[Len(extractor.tried) + 1]
           tried == Append(extractor.tried, extractor_name)
       IN \E out \in ExtractWithMethod(extractor_name, extractor.doc) :
             extractor' =
               IF PassesThreshold(out)
               THEN [extractor EXCEPT
                       !.tried = tried, !.outs = Append(@, out), !.pc = "done",
                       !.outcome = Success(extractor.resolved.value, extractor_name,
                                           out.n, tried)]
               ELSE [extractor EXCEPT
                       !.tried = tried, !.outs = Append(@, out),
                       !.pc = IF Len(tried) = Len(chain) THEN "aggressive" ELSE "extract"]
    /\ UNCHANGED <<searchVars, merge, resolver>>

\* lines 159-170
Aggressive ==
    /\ extractor.pc = "aggressive"
    /\ LET n == aggressive_extraction(extractor.installed, extractor.doc)
       IN extractor' =
            IF PassesAggressive(n)
            THEN Done(AggressiveSuccess(extractor.resolved.value, n, extractor.tried))
            ELSE Done(Failure("Todos os extratores falharam"))
    /\ UNCHANGED <<searchVars, merge, resolver>>

\* the download of _extract_pdf_content (lines 266-276)
PdfGet ==
    /\ extractor.pc = "pdf_get"
    /\ \E o \in GetOutcomes :
          LET got == [extractor EXCEPT !.gets = Append(@, o)]
          IN extractor' =
               IF o # "ok"
               THEN [got EXCEPT !.pc = "done",
                                !.outcome = DownloadErrorCaught("Erro no download do PDF")]
               ELSE IF PdfChain(extractor.installed) = <<>>
               THEN [got EXCEPT !.pc = "done",
                                !.outcome = Failure("Falha na extracao do PDF")]
               ELSE [got EXCEPT !.pc = "pdf_extract"]
    /\ UNCHANGED <<searchVars, merge, resolver>>

\* one turn of the loop over the PDF libraries (lines 279-297)
TryPdfExtractor ==
    /\ extractor.pc = "pdf_extract"
    /\ LET chain == PdfChain(extractor.installed)
           extractor_name == chain[Len(extractor.tried) + 1]
           tried == Append(extractor.tried, extractor_name)
       IN \E out \in ExtractPdfWithMethod(extractor_name, extractor.doc) :
             extractor' =
               IF PassesThreshold(out)
               THEN [extractor EXCEPT
                       !.tried = tried, !.outs = Append(@, out), !.pc = "done",
                       !.outcome = Success(extractor.resolved.value, extractor_name,
                                           out.n, tried)]
               ELSE IF Len(tried) = Len(chain)
               THEN [extractor EXCEPT
                       !.tried = tried, !.outs = Append(@, out), !.pc = "done",
                       !.outcome = Failure("Falha na extracao do PDF")]
               ELSE [extractor EXCEPT !.tried = tried, !.outs = Append(@, out)]
    /\ UNCHANGED <<searchVars, merge, resolver>>

NextExtractor ==
    \/ ExtractResolve
    \/ HtmlGet
    \/ TryExtractor
    \/ Aggressive
    \/ PdfGet
    \/ TryPdfExtractor

SpecExtractor == InitExtractor /\ [][NextExtractor]_vars

\* no turn of the loop of _download_html blocks for good: the GET has its
\* timeout and the sleep its duration, so the loop keeps stepping
SpecExtractorFair == SpecExtractor /\ WF_vars(HtmlGet)

\* ================================================================= claims
AdapterFailures == {"conn_error", "timeout", "non200", "unparsable"}

\* total number of entries in the lists of a provider_results dict
RECURSIVE EntryCount(_)
EntryCount(d) ==
    IF DOMAIN d = {} THEN 0
    ELSE LET k == CHOOSE x \in DOMAIN d : TRUE
         IN Len(d[k]) + EntryCount([x \in (DOMAIN d) \ {k} |-> d[x]])

\* C1: in every response unified_search returns, no two entries of results
\* carry the same url.
C1_UniqueUrls ==
    \A t \in Threads :
        result[t].kind = "returned" =>
            LET rs == result[t].response.results
            IN \A i, j \in 1..Len(rs) : i # j => rs[i].url # rs[j].url

\* a response with two results for which the providers had returned more
\* entries than that: a duplicate (or an empty url) was dropped
C1_Witness ==
    \E t \in Threads :
        /\ result[t].kind = "returned"
        /\ Len(result[t].response.results) = 2
        /\ Cardinality(DOMAIN result[t].response.provider_results) = 2
        /\ EntryCount(result[t].response.provider_results) > 2

\* a thread is inside _record_provider_error for p, between the store of
\* error_count and the threshold test
InsideRecord(p) == \E t \in Threads : pc[t] = "rec_check" /\ cur[t] = p

\* a step that is a reset_system request
IsResetStep == \E t \in Threads : reply'[t].op = "reset" /\ reply'[t] # reply[t]

C3_FailureCounted ==
    \A t \in Threads :
        (pc[t] = "collect" /\ last[t].http \in AdapterFailures)
            => providers[last[t].provider].error_count = last[t].count0 + 1

\* C4 (as claimed): after a reset_system request of type all or search,
\* every provider has error_count 0 and the scraping providers, which need
\* no credentials, are enabled.
C4_ResetClears ==
    \A t \in Threads :
        (reply[t].op = "reset" /\ reply[t].type \in {"all", "search"})
            => /\ \A p \in Provider : providers[p].error_count = 0
               /\ providers["bing"].enabled
               /\ providers["duckduckgo"].enabled

\* C5 (as claimed): unified_search never raises.
C5_NeverRaises == \A t \in Threads : result[t].kind # "raised"

\* C6 (as claimed): a provider whose future raises is recorded as one
\* provider error and contributes no result, and so is a provider whose
\* future is still unfinished when the collection timeout expires; neither
\* is called a second time within the call.
C6_ErrorRecorded ==
    /\ [](\A t \in Threads :
            (pc[t] = "collect" /\ last[t].raised)
                => /\ providers[last[t].provider].error_count = last[t].count0 + 1
                   /\ last[t].provider \notin DOMAIN provider_results[t]
                   /\ \A i \in 1..Len(all_results[t]) :
                          all_results[t][i].source # SourceOf(last[t].provider))
    /\ [](\A t \in Threads, p \in Provider : outbound[t][p] <= 1)
    /\ [][\A t \in Threads, p \in Provider :
            (fut[t][p] = "running" /\ pc'[t] = "idle")
                => /\ providers'[p].error_count = providers[p].error_count + 1
                   /\ result'[t].kind = "returned"]_vars

\* C7: a provider whose enabled flag is false when unified_search starts is
\* not put in search_tasks, gets no future and no outbound request.
C7_DisabledNotCalled ==
    \A t \in Threads, p \in Provider :
        ~providers0[t][p].enabled =>
            /\ outbound[t][p] = 0
            /\ fut[t][p] = "none"
            /\ p \notin Range(search_tasks[t])

\* a running search that has dispatched bing while google is disabled by
\* its errors and serper for want of a key
C7_Witness ==
    \E t \in Threads :
        /\ pc[t] = "collect"
        /\ outbound[t]["bing"] = 1
        /\ ~providers0[t]["google"].enabled
        /\ providers0[t]["google"].error_count = GoogleMaxErrors
        /\ ~providers0[t]["serper"].enabled
        /\ providers0[t]["serper"].error_count = 0

\* C8: the step that handles a future whose adapter returned the empty list
\* changes no provider state and leaves all_results and provider_results as
\* they were.
C8_EmptyIsNoError ==
    [][\A t \in Threads, p \in Provider :
          (fut[t][p] = "running" /\ fut'[t][p] = "done"
              /\ ~last'[t].raised /\ last'[t].n = 0)
            => /\ providers' = providers
               /\ all_results'[t] = all_results[t]
               /\ provider_results'[t] = provider_results[t]
               /\ pc'[t] = "collect"]_vars

\* the loop has just handled an adapter that answered 200 with no result,
\* after another provider had contributed results
C8_Witness ==
    \E t \in Threads :
        /\ pc[t] = "collect"
        /\ last[t].http = "ok" /\ last[t].n = 0 /\ ~last[t].raised
        /\ all_results[t] # <<>>

\* C9: a unified_search that finds no provider enabled returns (it does not
\* raise) a response with no result, total_results 0 and providers_used 0,
\* and leaves self.providers as it found it.
C9_NoProviderEnabled ==
    \A t \in Threads :
        (result[t].kind # "none" /\ \A p \in Provider : ~providers0[t][p].enabled)
            => /\ result[t].kind = "returned"
               /\ result[t].response.results = <<>>
               /\ result[t].response.statistics.total_results = 0
               /\ result[t].response.statistics.providers_used = 0
               /\ providers = providers0[t]

\* a search has returned that found all four providers disabled
C9_Witness ==
    \E t \in Threads :
        /\ result[t].kind = "returned"
        /\ \A p \in Provider : ~providers0[t][p].enabled
        /\ providers0[t]["bing"].error_count = BingMaxErrors

\* C10: whatever the outcome of its outbound request, an adapter returns a
\* list and does not raise, and the list is empty unless the outcome was a
\* parsable 200.
C10_AdapterNeverRaises ==
    \A t \in Threads :
        last[t].http \in HttpOutcomes
            => /\ ~last[t].raised
               /\ last[t].http \in AdapterFailures => last[t].n = 0

\* the serper adapter has returned after a non-200 answer
C10_Witness ==
    \E t \in Threads :
        /\ last[t].provider = "serper"
        /\ last[t].http = "non200"
        /\ fut[t]["serper"] = "done"

\* the host of a url: what stands between the "//" after the scheme and the
\* first of "/", ":" (port), "?" and "#"
HostOf(url) ==
    IF Len(url) >= 3 /\ url[2] = "/" /\ url[3] = "/"
    THEN LET rest == SubSeq(url, 4, Len(url))
             stops == {i \in 1..Len(rest) : rest[i] \in {"/", ":", "?", "#"}}
             last_of_host == IF stops = {} THEN Len(rest)
                             ELSE (CHOOSE i \in stops : \A j \in stops : i <= j) - 1
         IN SubSeq(rest, 1, last_of_host)
    ELSE <<>>

HostIsBr(r) == EndsWith(HostOf(r.url), <<".", "br">>)

HostIsPreferred(r) ==
    \E k \in 1..Len(preferred_domains) : Contains(HostOf(r.url), preferred_domains[k])

\* C11 (as claimed): in every response, a result whose host ends in .br has
\* is_brazilian true, a result whose host matches the preferred-domain list
\* has is_preferred and is_brazilian true, and either has a priority_score
\* strictly greater than that of any result with neither kind of host.
C11_BrazilianRanked ==
    merge.pc = "done" =>
        LET rs == merge.response.results
        IN \A i \in 1..Len(rs) :
              /\ HostIsBr(rs[i]) => rs[i].is_brazilian
              /\ HostIsPreferred(rs[i]) => (rs[i].is_preferred /\ rs[i].is_brazilian)
              /\ (HostIsBr(rs[i]) \/ HostIsPreferred(rs[i])) =>
                    \A j \in 1..Len(rs) :
                        (~HostIsBr(rs[j]) /\ ~HostIsPreferred(rs[j]))
                            => rs[i].priority_score > rs[j].priority_score

\* what the task of p returned to the loop
ReturnedBy(p) == SearchFunc(p, "ok", merge.bodies[p], merge.max_results).value

\* what the tasks of the call returned, joined in the given order
RECURSIVE JoinedInOrder(_)
JoinedInOrder(order) ==
    IF order = <<>> THEN <<>>
    ELSE ReturnedBy(Head(order)) \o JoinedInOrder(Tail(order))

\* C12 (as claimed): the results list of the response is the one obtained
\* when the tasks complete in the order they were submitted, whatever the
\* order in which they did complete.
C12_CompletionOrderFree ==
    merge.pc = "done" =>
        merge.response.results =
            prioritize_brazilian_sources(remove_duplicates(JoinedInOrder(MergeTasks)))

\* C13: when every task of the call has completed, total_results is the
\* number of distinct urls carried by the entries the tasks returned (an
\* entry whose url is empty carries none) and providers_used is the number
\* of tasks that returned at least one entry.
C13_Statistics ==
    merge.pc = "done" =>
        /\ merge.response.statistics.total_results =
              Cardinality({ReturnedBy(p)[i].url :
                              <<p, i>> \in {<<q, k>> \in Range(MergeTasks) \X (1..MaxTotal + 1) :
                                               k <= Len(ReturnedBy(q))}}
                          \ {EmptyUrl})
        /\ merge.response.statistics.providers_used =
              Cardinality({p \in Range(MergeTasks) : ReturnedBy(p) # <<>>})

\* both tasks returned entries, three in all, one of them with a url the
\* other task had returned too: two results from two providers
C13_Witness ==
    /\ merge.pc = "done"
    /\ Len(ReturnedBy("google")) + Len(ReturnedBy("bing")) = 3
    /\ \E i \in 1..Len(ReturnedBy("google")), j \in 1..Len(ReturnedBy("bing")) :
          ReturnedBy("google")[i].url = ReturnedBy("bing")[j].url
    /\ merge.response.statistics.total_results = 2
    /\ merge.response.statistics.providers_used = 2

\* positions of s whose entry is the first of s to carry its (non-empty) url
FirstCarriers(s) ==
    {j \in 1..Len(s) : s[j].url # EmptyUrl /\ \A i \in 1..(j - 1) : s[i].url # s[j].url}

\* C19: the list _remove_duplicates returns holds, for each url of its
\* input, the first entry that carries it, unchanged, and nothing else, and
\* these entries stand in the order they have in the input.
C19_FirstKept ==
    merge.pc \in {"prioritize", "done"} =>
        LET given == merge.all_results
            kept == merge.unique_results
            F == FirstCarriers(given)
        IN /\ Len(kept) = Cardinality(F)
           /\ \A k \in 1..Len(kept) :
                 \E j \in F : /\ kept[k] = given[j]
                              /\ Cardinality({i \in F : i < j}) = k - 1

\* three entries came in, the third with the url of the first but from the
\* other provider; two are kept
C19_Witness ==
    /\ merge.pc = "prioritize"
    /\ Len(merge.all_results) = 3
    /\ merge.all_results[3].url = merge.all_results[1].url
    /\ merge.all_results[3].source # merge.all_results[1].source
    /\ merge.all_results[2].url # merge.all_results[1].url
    /\ Len(merge.unique_results) = 2

\* position in s of the entry that carries url
PosIn(s, url) == CHOOSE i \in 1..Len(s) : s[i].url = url

\* C20: the results list of a response holds the deduplicated entries with
\* non-increasing priority_score, and two results of equal score stand in
\* the order they had in the deduplicated list.
C20_SortedStable ==
    merge.pc = "done" =>
        LET rs == merge.response.results
            u == merge.unique_results
        IN /\ Len(rs) = Len(u)
           /\ \A k \in 1..Len(u) : \E i \in 1..Len(rs) : rs[i].url = u[k].url
           /\ \A i, j \in 1..Len(rs) :
                 i < j =>
                     /\ rs[i].priority_score >= rs[j].priority_score
                     /\ rs[i].priority_score = rs[j].priority_score
                            => PosIn(u, rs[i].url) < PosIn(u, rs[j].url)

\* three results: the one that came first in the deduplicated list has the
\* lowest score and stands last, the other two have equal scores
C20_Witness ==
    /\ merge.pc = "done"
    /\ Len(merge.response.results) = 3
    /\ merge.response.results[1].priority_score = merge.response.results[2].priority_score
    /\ merge.response.results[3].priority_score < merge.response.results[2].priority_score
    /\ merge.unique_results[1].url = merge.response.results[3].url

\* the fields of the query string of a url, as they stand
QueryFields(url) ==
    LET q == FirstOf(url, 1, {"?"})
    IN IF q > Len(url) THEN <<>> ELSE Split(SubSeq(url, q + 1, Len(url)), "&")

\* url is a Bing click-tracking redirect whose one parameter u holds the
\* URL-encoded Target
EmbedsTarget(url) ==
    /\ StartsWith(url, BingClick)
    /\ \E i \in 1..Len(QueryFields(url)) :
          /\ QueryFields(url)[i] = <<"u", "=">> \o EncodedTarget
          /\ \A j \in 1..Len(QueryFields(url)) :
                (j # i /\ Len(QueryFields(url)[j]) > 0) => QueryFields(url)[j][1] # "u"

\* C14 (as claimed): resolve_url of a Bing redirect that embeds the encoded
\* target in its parameter u, wherever u stands among the parameters,
\* returns the target.
C14_BingTargetResolved ==
    (resolver.pc = "resolved" /\ EmbedsTarget(resolver.url))
        => resolver.resolved = Some(Target)

C16_Http500IsAnError ==
    (/\ extractor.pc = "done"
     /\ extractor.gets # <<>>
     /\ \A i \in 1..Len(extractor.gets) : extractor.gets[i] = "http500")
        => /\ extractor.outcome.kind = "returned"
           /\ extractor.outcome.content = 0
           /\ "error" \in DOMAIN extractor.outcome.metadata
           /\ extractor.outcome.metadata.error # ""
           /\ Len(extractor.gets) =
                 IF is_pdf_url(extractor.resolved.value) THEN 1 ELSE DownloadAttempts

\* the HTML path has ended after three GETs that all got a 500, with the
\* two pauses between them
C16_Witness ==
    /\ extractor.pc = "done"
    /\ extractor.gets = <<"http500", "http500", "http500">>
    /\ extractor.slept = <<1, 2>>
    /\ ~is_pdf_url(extractor.resolved.value)

KnownMethods == {"trafilatura", "readability", "newspaper", "beautifulsoup", "aggressive"}

\* the call of extract_content has ended, it had got a 200 with an HTML
\* page of at least 100 characters of body text
HtmlPageServed ==
    /\ extractor.pc = "done"
    /\ extractor.gets # <<>>
    /\ extractor.gets[Len(extractor.gets)] = "ok"
    /\ extractor.doc.kind = "html"
    /\ ~extractor.doc.empty
    /\ extractor.doc.main >= ExtractThreshold

ContentExtracted ==
    /\ extractor.outcome.kind = "returned"
    /\ extractor.outcome.content > 0
    /\ "extractor_used" \in DOMAIN extractor.outcome.metadata
    /\ extractor.outcome.metadata.extractor_used \in KnownMethods

\* C17 (as claimed): for every HTML page of at least 100 characters of body
\* text that was downloaded, extract_content returns content that is not
\* empty and names the method in extractor_used.
C17_HtmlPageExtracted == HtmlPageServed => ContentExtracted

\* C17 (amended): the same for the pages whose resolved url does not have
\* the letters pdf in it.
C17_HtmlPathExtracted ==
    (HtmlPageServed /\ ~is_pdf_url(extractor.resolved.value)) => ContentExtracted

\* a page of exactly 100 characters of body text, which no extractor
\* accepted, comes back from the aggressive pass
C17_Witness ==
    /\ HtmlPageServed
    /\ ~is_pdf_url(extractor.resolved.value)
    /\ extractor.doc.main = ExtractThreshold
    /\ extractor.doc.chrome = 0
    /\ extractor.tried = <<"trafilatura", "readability", "newspaper", "beautifulsoup">>
    /\ extractor.outcome.content = ExtractThreshold
    /\ extractor.outcome.metadata.extractor_used = "aggressive"

\* ---------------------------------------------------------------- C18
\* C18: when several unified_search invocations record errors for the same
\* provider at the same time, no increment of its error_count is lost: each
\* completed "error_count += 1" leaves the count one above the value the
\* table held just before the store, and the provider is disabled by the
\* test that follows as soon as the count of recorded errors reaches
\* max_errors.
C18_IncrementsAtomic ==
    [][\A t \in Threads :
          (pc[t] = "rec_store" /\ pc'[t] = "rec_check")
             => providers'[cur[t]].error_count = providers[cur[t]].error_count + 1]_vars


\* ---------------------------------------------------------------- C21
\* C21: across the unified_search and get_provider_status calls a client
\* makes, in every step that is not a reset request, no provider's enabled
\* flag goes from false to true and no provider's error_count goes down.
C21_OneWay ==
    [][~IsResetStep =>
          \A p \in Provider :
              /\ ~providers[p].enabled => ~providers'[p].enabled
              /\ providers'[p].error_count >= providers[p].error_count]_vars

\* a unified_search that found bing disabled at its threshold of errors has
\* returned, and the table still shows bing so
C21_Witness ==
    \E t \in Threads :
        /\ result[t].kind = "returned"
        /\ ~providers0[t]["bing"].enabled
        /\ providers0[t]["bing"].error_count = BingMaxErrors
        /\ providers["bing"] = providers0[t]["bing"]


HtmlOrder == <<"trafilatura", "readability", "newspaper", "beautifulsoup">>

PosInOrder(e) == CHOOSE k \in 1..Len(HtmlOrder) : HtmlOrder[k] = e

\* the call is on the HTML path
OnHtmlPath == extractor.resolved.some /\ ~is_pdf_url(extractor.resolved.value)

\* the i-th method attempted returned a text longer than 100 characters
LongEnough(i) == ~extractor.outs[i].raised /\ extractor.outs[i].n > 100

\* C23: on the HTML path the methods attempted are taken in the order
\* trafilatura, readability, newspaper, beautifulsoup; every method
\* attempted before the latest raised or returned 100 characters or fewer;
\* when the latest returned more than 100 characters the call has returned
\* (so nothing is attempted after it), with extractor_used naming that
\* method and extractors_tried listing exactly the methods attempted; and
\* when it did not, the call has not returned with that method's text.
C23_FirstLongEnoughWins ==
    OnHtmlPath =>
        LET tried == extractor.tried
            n == Len(tried)
        IN /\ Len(extractor.outs) = n
           /\ \A i \in 1..n : tried[i] \in Range(HtmlOrder)
           /\ \A i \in 1..n, j \in 1..n :
                 i < j => PosInOrder(tried[i]) < PosInOrder(tried[j])
           /\ \A e \in Range(HtmlOrder) :
                 (e \in extractor.installed /\ n > 0 /\ PosInOrder(e) < PosInOrder(tried[n]))
                     => e \in Range(tried)
           /\ \A i \in 1..(n - 1) : ~LongEnough(i)
           /\ (n > 0 /\ LongEnough(n)) =>
                 /\ extractor.pc = "done"
                 /\ extractor.outcome.kind = "returned"
                 /\ extractor.outcome.content = extractor.outs[n].n
                 /\ extractor.outcome.metadata.extractor_used = tried[n]
                 /\ extractor.outcome.metadata.extractors_tried = tried
           /\ (n > 0 /\ ~LongEnough(n) /\ extractor.pc = "done") =>
                 /\ n = Len(HtmlChain(extractor.installed))
                 /\ "extractor_used" \in DOMAIN extractor.outcome.metadata
                       => extractor.outcome.metadata.extractor_used = "aggressive"

\* trafilatura raised, readability returned exactly 100 characters and
\* newspaper's text was returned
C23_Witness ==
    /\ OnHtmlPath
    /\ extractor.pc = "done"
    /\ extractor.tried = <<"trafilatura", "readability", "newspaper">>
    /\ extractor.outs[1].raised
    /\ ~extractor.outs[2].raised /\ extractor.outs[2].n = 100
    /\ extractor.outcome.metadata.extractor_used = "newspaper"


\* ---------------------------------------------------------------- C24
\* the GET attempts of _download_html that failed, out of those made so far
FailedGets == Len(SelectSeq(extractor.gets, LAMBDA o : o # "ok"))

\* C24: _download_html makes at most 3 GET attempts; a successful attempt
\* is the last one made; after the first failed attempt it has waited 1
\* second and after the second 2 seconds more, and it does not wait after
\* the third; after three failures the call has ended with the download
\* error, not with the report of an empty body; and a download that has
\* started always comes to an end.
C24_DownloadTerminates ==
    /\ [](OnHtmlPath =>
            /\ Len(extractor.gets) <= 3
            /\ \A i \in 1..(Len(extractor.gets) - 1) : extractor.gets[i] # "ok"
            /\ Len(extractor.slept) = (IF FailedGets < 3 THEN FailedGets ELSE 2)
            /\ \A i \in 1..Len(extractor.slept) : extractor.slept[i] = 2 ^ (i - 1)
            /\ FailedGets = 3 =>
                  /\ extractor.pc = "done"
                  /\ extractor.outcome.kind = "returned"
                  /\ extractor.outcome.content = 0
                  /\ extractor.outcome.metadata.error = "Erro no download"
            /\ (extractor.pc = "html_get") => FailedGets = Len(extractor.gets))
    /\ ((extractor.pc = "html_get") ~> (extractor.pc # "html_get"))

\* two attempts failed, the third got the page and an extractor was tried
C24_Witness ==
    /\ OnHtmlPath
    /\ extractor.gets = <<"timeout", "http500", "ok">>
    /\ extractor.slept = <<1, 2>>
    /\ extractor.tried # <<>>


\* ---------------------------------------------------------------- C25
\* C25: once extract_content has resolved the url, a url classified as PDF
\* is only ever downloaded and read by the PDF path (no HTML method and no
\* aggressive pass is attempted, whatever the PDF extractors do), and a url
\* classified as HTML only by the HTML path (no PDF extractor is attempted,
\* whatever the HTML methods and the aggressive pass do).
C25_PathsNeverCross ==
    extractor.resolved.some =>
        LET used == IF extractor.outcome.kind = "returned"
                       /\ "extractor_used" \in DOMAIN extractor.outcome.metadata
                    THEN {extractor.outcome.metadata.extractor_used}
                    ELSE {}
        IN IF is_pdf_url(extractor.resolved.value)
           THEN /\ extractor.pc \in {"pdf_get", "pdf_extract", "done"}
                /\ Range(extractor.tried) \subseteq Range(PdfOrder)
                /\ used \subseteq Range(PdfOrder)
                /\ Len(extractor.gets) <= 1
           ELSE /\ extractor.pc \in {"html_get", "extract", "aggressive", "done"}
                /\ Range(extractor.tried) \subseteq Range(HtmlOrder)
                /\ used \subseteq Range(HtmlOrder) \cup {"aggressive"}

\* every library is installed, the url was classified as PDF, the three PDF
\* extractors failed and the call ended with the PDF error
C25_Witness ==
    /\ extractor.resolved.some
    /\ is_pdf_url(extractor.resolved.value)
    /\ extractor.installed = Range(ExtractorProbeOrder)
    /\ extractor.tried = PdfOrder
    /\ extractor.pc = "done"
    /\ extractor.outcome.content = 0
    /\ extractor.outcome.metadata.error = "Falha na extracao do PDF"


\* ---------------------------------------------------------------- C26
\* C26: when resolve_url returns null for the url given (empty, without
\* scheme or host, or a redirect that names no target), extract_content
\* has, as soon as it has acted, returned empty content with an error in
\* the metadata, and it has made no GET, no wait and no extraction attempt.
C26_UnresolvedIsTerminal ==
    (~resolve_url(extractor.url).some /\ extractor.pc # "call") =>
        /\ extractor.pc = "done"
        /\ extractor.outcome.kind = "returned"
        /\ extractor.outcome.content = 0
        /\ "error" \in DOMAIN extractor.outcome.metadata
        /\ extractor.gets = <<>>
        /\ extractor.slept = <<>>
        /\ extractor.tried = <<>>

\* the call with the Bing redirect that names no target has returned
C26_Witness ==
    /\ extractor.url = WithQuery(BingClick, <<"p", "=", "1">>)
    /\ ~resolve_url(extractor.url).some
    /\ extractor.pc = "done"
    /\ extractor.outcome.metadata.error = "URL nao resolvida"


\* ---------------------------------------------------------------- C27
\* names extract_content can put in extractor_used
UsedNames == Range(HtmlOrder) \cup Range(PdfOrder) \cup {"aggressive"}

\* non-empty content, extractor_used set, no error
IsContentShape(outcome) ==
    /\ outcome.content > 0
    /\ "extractor_used" \in DOMAIN outcome.metadata
    /\ outcome.metadata.extractor_used \in UsedNames
    /\ "error" \notin DOMAIN outcome.metadata

\* empty content, an error set
IsErrorShape(outcome) ==
    /\ outcome.content = 0
    /\ "error" \in DOMAIN outcome.metadata
    /\ outcome.metadata.error # ""

\* C27: every call of extract_content that has ended has returned (not
\* raised) a value of exactly one of two shapes: non-empty content with
\* extractor_used set and no error, or empty content with an error; a text
\* of the aggressive pass is returned only when it is longer than 50
\* characters; and when every method available and the aggressive pass
\* have failed, the value is empty content with an error.
C27_TwoShapes ==
    extractor.pc = "done" =>
        /\ extractor.outcome.kind = "returned"
        /\ IsContentShape(extractor.outcome) # IsErrorShape(extractor.outcome)
        /\ (IsContentShape(extractor.outcome)
              /\ extractor.outcome.metadata.extractor_used = "aggressive")
                 => extractor.outcome.content > 50
        /\ (OnHtmlPath
              /\ extractor.gets # <<>> /\ extractor.gets[Len(extractor.gets)] = "ok"
              /\ \A i \in 1..Len(extractor.outs) : ~LongEnough(i)
              /\ aggressive_extraction(extractor.installed, extractor.doc) <= 50)
                 => IsErrorShape(extractor.outcome)

\* the four HTML methods failed and the aggressive pass found exactly 50
\* characters: the call returned the error
C27_Witness ==
    /\ OnHtmlPath
    /\ extractor.pc = "done"
    /\ extractor.tried = HtmlOrder
    /\ extractor.doc.main = 50
    /\ aggressive_extraction(extractor.installed, extractor.doc) = 50
    /\ IsErrorShape(extractor.outcome)
    /\ extractor.outcome.metadata.error = "Todos os extratores falharam"


\* ---------------------------------------------------------------- C28
\* the name is id, page, article, post or slug in any letter case
AllowedName(name) ==
    Len(name) = 1 /\ LowerToken(name[1]) \in {"id", "page", "article", "post", "slug"}

\* the parameters of a query string, decoded: name and value of each field,
\* an empty value included
DecodedPairs(query) ==
    LET fields == SelectSeq(Split(query, "&"), LAMBDA f : f # <<>>)
    IN [i \in 1..Len(fields) |->
          LET eq == FirstOf(fields[i], 1, {"="})
              name == SubSeq(fields[i], 1, eq - 1)
              value == SubSeq(fields[i], eq + 1, Len(fields[i]))
          IN [name |-> [k \in 1..Len(name) |-> UnquotePlusToken(name[k])],
              value |-> [k \in 1..Len(value) |-> UnquotePlusToken(value[k])]]]

Occurrences(s, x) == Cardinality({i \in 1..Len(s) : s[i] = x})

\* the same elements, as many times each
SameBag(a, b) ==
    /\ Len(a) = Len(b)
    /\ \A i \in 1..Len(a) : Occurrences(a, a[i]) = Occurrences(b, a[i])

\* C28 (as claimed): for a url that resolves, clean_url returns the resolved
\* url (scheme, host and path) with exactly those of its query parameters
\* whose name is id, page, article, post or slug in any letter case, each
\* with its value; for a url that does not resolve it returns the url given.
C28_OnlyEssentialKept ==
    resolver.pc = "cleaned" =>
        IF resolve_url(resolver.url).some
        THEN LET r == urlparse(resolve_url(resolver.url).value)
                 c == urlparse(resolver.cleaned)
             IN /\ c.scheme = r.scheme /\ c.netloc = r.netloc /\ c.path = r.path
                /\ SameBag(DecodedPairs(c.query),
                           SelectSeq(DecodedPairs(r.query), LAMBDA p : AllowedName(p.name)))
        ELSE resolver.cleaned = resolver.url


\* ---------------------------------------------------------------- C29
\* C29 (as claimed): every value resolve_url returns that is not null
\* parses as a url with a scheme and a host, the values of the Bing
\* redirect branch included; and resolve_url of the empty string is null.
C29_ResolvedIsWellFormed ==
    resolver.pc = "resolved" =>
        /\ resolver.resolved.some =>
              /\ urlparse(resolver.resolved.value).scheme # ""
              /\ urlparse(resolver.resolved.value).netloc # <<>>
        /\ resolver.url = <<>> => ~resolver.resolved.some


\* ---------------------------------------------------------------- C30
\* C30: in every response of unified_search each result marked is_preferred
\* is marked is_brazilian too, and the statistics satisfy
\* preferred_sources <= brazilian_sources <= total_results, total_results
\* being the length of results.
C30_PreferredIsBrazilian ==
    merge.pc = "done" =>
        LET results == merge.response.results
            statistics == merge.response.statistics
        IN /\ \A i \in 1..Len(results) : results[i].is_preferred => results[i].is_brazilian
           /\ statistics.preferred_sources <= statistics.brazilian_sources
           /\ statistics.brazilian_sources <= statistics.total_results
           /\ statistics.total_results = Len(results)

\* a response with a preferred result, one that is brazilian without being
\* preferred and one that is neither
C30_Witness ==
    /\ merge.pc = "done"
    /\ merge.response.statistics.preferred_sources = 1
    /\ merge.response.statistics.brazilian_sources = 2
    /\ merge.response.statistics.total_results = 3
    /\ \E i \in 1..Len(merge.response.results) :
          merge.response.results[i].is_preferred /\ merge.response.results[i].is_brazilian

====
